---- MODULE Spec2Model ----
(***************************************************************************)
(* Hospital management backend (backend/app.py): a Flask application whose *)
(* handlers run parameterized SQL statements against a SQL Server store.   *)
(* The model keeps the store's tables, and for every worker thread the     *)
(* request it serves, its position in the handler, its connection, the     *)
(* statements it has sent and the response it returns.                     *)
(*                                                                         *)
(* Values.  Python's None is the empty tuple; a present value v is <<v>>   *)
(* for query-string arguments (strings) and <<type, v>> for JSON values.   *)
(* A JSON float is kept in tenths (<<"float", 15>> is 1.5).  A datetime is *)
(* an integer number of half days since 2024-12-31 00:00.                  *)
(***************************************************************************)
EXTENDS Integers, Sequences, FiniteSets, TLC

VARIABLES
    workers,      \* the worker threads of the server that accept requests
    Patient,      \* dbo.Patient rows
    Doctor,       \* dbo.Doctor rows
    Appointment,  \* dbo.Appointment rows
    Treatment,    \* dbo.Treatment rows
    Billing,      \* dbo.Billing rows
    AppUser,      \* dbo.AppUser rows
    identity,     \* the IDENTITY counter of dbo.Appointment (next appointment_id)
    pc,           \* per worker: position in its handler
    req,          \* per worker: the request it serves
    conn,         \* per worker: "none", "open" or "closed"
    loc,          \* per worker: handler locals that live across statements
    stmts,        \* per worker: the statements sent to the store by this request
    pre,          \* per worker: dbo.Appointment as it was when the request arrived
    resp,         \* per worker: the response returned
    served        \* requests accepted so far

vars == <<workers, Patient, Doctor, Appointment, Treatment, Billing, AppUser,
          identity, pc, req, conn, loc, stmts, pre, resp, served>>

tables == <<Patient, Doctor, Appointment, Treatment, Billing, AppUser, identity>>

\* ------------------------------------------------------------------ bounds

MaxRequests == 2

Threads == {1, 2}

\* ------------------------------------------------------------------ values

None == <<>>

IsNone(x) == x = <<>>

\* The ids a client may name: the rows of the initial store and one id beyond.
ClientIds == {1, 2, 3}

\* JSON values a client sends for patient_id and for doctor_id.
PatientJson == {None, <<"int", 2>>, <<"int", 3>>, <<"float", 15>>, <<"str", "abc">>}

DoctorJson == {None, <<"int", 1>>, <<"int", 3>>}

\* Query-string values a client sends for an integer filter.
ArgIds == {None, <<"">>, <<"1">>, <<"3">>, <<"abc">>}

DoctorArgs == {None, <<"2">>, <<"abc">>}

DateStrings == {"2025-01-01 12:00:00", "2025-01-02"}

Reasons == {"Check-up", "Follow-up"}

Statuses == {"Paid", "Unpaid"}

\* ------------------------------------------------------- python conversions

\* int(s) for a query-string argument: defined on decimal literals only.
IsNumeric(s) ==
    s \in {"0", "1", "2", "3", "4"}

ParseInt(s) ==
    CASE s = "0" -> 0
      [] s = "1" -> 1
      [] s = "2" -> 2
      [] s = "3" -> 3
      [] s = "4" -> 4

\* int(v) for a JSON value: raises on None and on a non-numeric string,
\* truncates a float.
IntRaises(j) ==
    \/ IsNone(j)
    \/ j[1] = "str" /\ ~IsNumeric(j[2])

PyInt(j) ==
    CASE j[1] = "int"   -> j[2]
      [] j[1] = "float" -> j[2] \div 10
      [] j[1] = "str"   -> ParseInt(j[2])

\* The store's comparison of an int column with a bound parameter: an int
\* compares as is, a float compares as a float (no truncation).
SqlEqInt(col, param) ==
    CASE param[1] = "int"   -> col = param[2]
      [] param[1] = "float" -> col * 10 = param[2]
      [] param[1] = "str"   -> IsNumeric(param[2]) /\ col = ParseInt(param[2])

\* The store's conversion of a date string to a datetime: a date without a
\* time is midnight of that day.
ParseDate(s) ==
    CASE s = "2025-01-01 12:00:00" -> 3
      [] s = "2025-01-02"          -> 4
      [] s = "2025-01-02 00:00:00" -> 4
      [] s = "2025-01-02 12:00:00" -> 5

\* str(datetime): always date and time.
FormatDate(t) ==
    CASE t = 3 -> "2025-01-01 12:00:00"
      [] t = 4 -> "2025-01-02 00:00:00"
      [] t = 5 -> "2025-01-02 12:00:00"

\* bcrypt over utf-8 bytes.  A hash carries its salt; checkpw re-hashes the
\* candidate under the stored salt and compares.
Utf8(s) ==
    CASE s = "secret" -> <<3, 5>>
      [] s = "guess"  -> <<4, 1>>
      [] s = ""       -> <<>>

RECURSIVE Mix(_, _)
Mix(bytes, acc) ==
    IF bytes = <<>> THEN acc
    ELSE Mix(Tail(bytes), (acc * 31 + Head(bytes)) % 97)

BcryptHash(bytes, salt) ==
    <<salt, Mix(bytes, salt)>>

Checkpw(bytes, hashed) ==
    BcryptHash(bytes, hashed[1]) = hashed

\* ------------------------------------------------------------ the store

InitPatient ==
    { [patient_id |-> 1, name |-> "Ann"],
      [patient_id |-> 2, name |-> "Ben"] }

InitDoctor ==
    { [doctor_id |-> 1, name |-> "Zed"],
      [doctor_id |-> 2, name |-> "Amy"] }

InitAppointment ==
    { [appointment_id |-> 1, patient_id |-> 1, doctor_id |-> 1,
       appointment_date |-> 3, reason |-> "Check-up"],
      [appointment_id |-> 2, patient_id |-> 2, doctor_id |-> 2,
       appointment_date |-> 3, reason |-> "Follow-up"] }

InitTreatment ==
    { [treatment_id |-> 1, appointment_id |-> 1],
      [treatment_id |-> 2, appointment_id |-> 1],
      [treatment_id |-> 3, appointment_id |-> 2] }

InitBilling ==
    { [bill_id |-> 1, patient_id |-> 1, treatment_id |-> <<1>>,
       amount |-> <<1050>>, payment_status |-> "Paid", billing_date |-> 3],
      [bill_id |-> 2, patient_id |-> 1, treatment_id |-> None,
       amount |-> None, payment_status |-> "Unpaid", billing_date |-> 3],
      [bill_id |-> 3, patient_id |-> 2, treatment_id |-> <<3>>,
       amount |-> <<200>>, payment_status |-> "Paid", billing_date |-> 4] }

InitAppUser ==
    { [username |-> "alice", password_hash |-> BcryptHash(Utf8("secret"), 7),
       full_name |-> "Alice A", role |-> "admin"] }

\* The collation order of the names ORDER BY sorts.
NameRank(n) ==
    CASE n = "Amy" -> 1
      [] n = "Ann" -> 2
      [] n = "Ben" -> 3
      [] n = "Zed" -> 4

\* Lexicographic order on key tuples of equal length.
RECURSIVE KeyLess(_, _)
KeyLess(a, b) ==
    IF a = <<>> THEN FALSE
    ELSE \/ Head(a) < Head(b)
         \/ Head(a) = Head(b) /\ KeyLess(Tail(a), Tail(b))

\* ORDER BY: the rows of S in ascending order of key[row] (keys are unique).
RECURSIVE OrderAsc(_, _)
OrderAsc(S, key) ==
    IF S = {} THEN <<>>
    ELSE LET m == CHOOSE x \in S : \A y \in S \ {x} : KeyLess(key[x], key[y])
         IN  <<m>> \o OrderAsc(S \ {m}, key)

OrderDesc(S, key) ==
    LET s == OrderAsc(S, key)
    IN  [i \in 1..Len(s) |-> s[Len(s) + 1 - i]]

\* Faulty variants: the COUNT(*) without its WHERE clause.
CountPatient_NoWhere(param) ==
    Cardinality(Patient)

CountDoctor_NoWhere(param) ==
    Cardinality(Doctor)

CountAppointment_NoWhere(id) ==
    Cardinality(Appointment)

\* SELECT COUNT(*) FROM dbo.Patient / Doctor / Appointment WHERE id = ?
CountPatient(param) ==
    Cardinality({p \in Patient : SqlEqInt(p.patient_id, param)})

CountDoctor(param) ==
    Cardinality({d \in Doctor : SqlEqInt(d.doctor_id, param)})

CountAppointment(id) ==
    Cardinality({a \in Appointment : a.appointment_id = id})

\* The joined SELECT of the appointment handlers: one row per appointment
\* whose patient and doctor rows exist (inner joins).
Joined(a) ==
    { <<a.appointment_id, a.appointment_date, a.reason,
        p.patient_id, p.name, d.doctor_id, d.name>> :
      <<p, d>> \in { pd \in Patient \X Doctor :
                       /\ pd[1].patient_id = a.patient_id
                       /\ pd[2].doctor_id = a.doctor_id } }

_appointment_row_to_json(r) ==
    [appointment_id   |-> r[1],
     appointment_date |-> FormatDate(r[2]),
     reason           |-> r[3],
     patient_id       |-> r[4],
     patient_name     |-> r[5],
     doctor_id        |-> r[6],
     doctor_name      |-> r[7]]

\* ------------------------------------------------------- query builders

\* `if x:` on a query-string argument: present and not the empty string.
Truthy(x) ==
    ~IsNone(x) /\ x[1] # ""

\* The WHERE clause of GET /appointments: the predicates in the order they
\* are appended, and the parameters in the same order.  int() of an integer
\* filter is taken while building.
AppointmentWhereRaises(args) ==
    \/ Truthy(args.patient_id) /\ ~IsNumeric(args.patient_id[1])
    \/ Truthy(args.doctor_id) /\ ~IsNumeric(args.doctor_id[1])

\* Faulty variant: the doctor_id filter is not appended.
AppointmentWhere_NoDoctor(args) ==
    LET w1 == IF Truthy(args.patient_id)
              THEN <<[pred |-> <<"patient_id", "=">>,
                      param |-> ParseInt(args.patient_id[1])]>>
              ELSE <<>>
        w3 == IF Truthy(args.from)
              THEN <<[pred |-> <<"appointment_date", ">=">>,
                      param |-> args.from[1]]>>
              ELSE <<>>
        w4 == IF Truthy(args.to)
              THEN <<[pred |-> <<"appointment_date", "<=">>,
                      param |-> args.to[1]]>>
              ELSE <<>>
        w  == w1 \o w3 \o w4
    IN  [where  |-> [i \in 1..Len(w) |-> w[i].pred],
         params |-> [i \in 1..Len(w) |-> w[i].param]]

AppointmentWhere(args) ==
    LET w1 == IF Truthy(args.patient_id)
              THEN <<[pred |-> <<"patient_id", "=">>,
                      param |-> ParseInt(args.patient_id[1])]>>
              ELSE <<>>
        w2 == IF Truthy(args.doctor_id)
              THEN <<[pred |-> <<"doctor_id", "=">>,
                      param |-> ParseInt(args.doctor_id[1])]>>
              ELSE <<>>
        w3 == IF Truthy(args.from)
              THEN <<[pred |-> <<"appointment_date", ">=">>,
                      param |-> args.from[1]]>>
              ELSE <<>>
        w4 == IF Truthy(args.to)
              THEN <<[pred |-> <<"appointment_date", "<=">>,
                      param |-> args.to[1]]>>
              ELSE <<>>
        w  == w1 \o w2 \o w3 \o w4
    IN  [where  |-> [i \in 1..Len(w) |-> w[i].pred],
         params |-> [i \in 1..Len(w) |-> w[i].param]]

TreatmentWhereRaises(args) ==
    Truthy(args.appointment_id) /\ ~IsNumeric(args.appointment_id[1])

TreatmentWhere(args) ==
    IF Truthy(args.appointment_id)
    THEN [where  |-> << <<"appointment_id", "=">> >>,
          params |-> <<ParseInt(args.appointment_id[1])>>]
    ELSE [where |-> <<>>, params |-> <<>>]

BillingWhereRaises(args) ==
    Truthy(args.patient_id) /\ ~IsNumeric(args.patient_id[1])

BillingWhere(args) ==
    LET w1 == IF Truthy(args.patient_id)
              THEN <<[pred |-> <<"patient_id", "=">>,
                      param |-> ParseInt(args.patient_id[1])]>>
              ELSE <<>>
        w2 == IF Truthy(args.status)
              THEN <<[pred |-> <<"payment_status", "=">>,
                      param |-> args.status[1]]>>
              ELSE <<>>
        w  == w1 \o w2
    IN  [where  |-> [i \in 1..Len(w) |-> w[i].pred],
         params |-> [i \in 1..Len(w) |-> w[i].param]]

\* The store's evaluation of one predicate `col op ?` on a row: the i-th
\* placeholder is bound to the i-th parameter; a date-string parameter is
\* converted to a datetime.
Holds(row, pred, param) ==
    CASE pred[2] = "="  -> row[pred[1]] = param
      [] pred[2] = ">=" -> row[pred[1]] >= ParseDate(param)
      [] pred[2] = "<=" -> row[pred[1]] <= ParseDate(param)

Where(row, sql) ==
    \A i \in 1..Len(sql.where) : Holds(row, sql.where[i], sql.params[i])

\* GET /appointments: join, filter, ORDER BY appointment_date DESC,
\* appointment_id DESC, map.
SelectAppointments(sql) ==
    LET hit  == {a \in Appointment : Where(a, sql) /\ Joined(a) # {}}
        key  == [a \in hit |-> <<a.appointment_date, a.appointment_id>>]
        rows == OrderDesc(hit, key)
    IN  [i \in 1..Len(rows) |->
            _appointment_row_to_json(CHOOSE r \in Joined(rows[i]) : TRUE)]

\* GET /treatments: filter, ORDER BY treatment_id DESC, map.
SelectTreatments(sql) ==
    LET hit == {t \in Treatment : Where(t, sql)}
        key == [t \in hit |-> <<t.treatment_id>>]
    IN  OrderDesc(hit, key)

\* GET /billing: join Patient, filter, ORDER BY billing_date DESC,
\* bill_id DESC, map (Decimal to float, date to string).
SelectBilling(sql) ==
    LET hit  == {b \in Billing :
                   /\ Where(b, sql)
                   /\ \E q \in Patient : q.patient_id = b.patient_id}
        key  == [b \in hit |-> <<b.billing_date, b.bill_id>>]
        rows == OrderDesc(hit, key)
    IN  [i \in 1..Len(rows) |->
            [bill_id        |-> rows[i].bill_id,
             patient_id     |-> rows[i].patient_id,
             patient_name   |-> (CHOOSE q \in Patient :
                                   q.patient_id = rows[i].patient_id).name,
             treatment_id   |-> rows[i].treatment_id,
             amount         |-> IF IsNone(rows[i].amount) THEN None
                                ELSE <<"float", rows[i].amount[1]>>,
             payment_status |-> rows[i].payment_status,
             billing_date   |-> FormatDate(rows[i].billing_date)]]

SelectPatients ==
    OrderAsc(Patient, [q \in Patient |-> <<q.patient_id>>])

SelectDoctors ==
    OrderAsc(Doctor, [d \in Doctor |-> <<NameRank(d.name)>>])

\* ------------------------------------------------------ request plumbing

NoRequest == [op |-> "none"]

Response(status, message, body) ==
    [status |-> status, message |-> message, body |-> body]

InitWith(w) ==
    /\ workers = w
    /\ Patient = InitPatient
    /\ Doctor = InitDoctor
    /\ Appointment = InitAppointment
    /\ Treatment = InitTreatment
    /\ Billing = InitBilling
    /\ AppUser = InitAppUser
    /\ identity = 3
    /\ pc = [t \in Threads |-> "idle"]
    /\ req = [t \in Threads |-> NoRequest]
    /\ conn = [t \in Threads |-> "none"]
    /\ loc = [t \in Threads |-> None]
    /\ stmts = [t \in Threads |-> <<>>]
    /\ pre = [t \in Threads |-> {}]
    /\ resp = [t \in Threads |-> None]
    /\ served = 0

\* One worker: requests are served one after the other.
Init == InitWith({1})

\* An idle worker of the server may take the next request.
Free(p) ==
    /\ p \in workers
    /\ pc[p] = "idle"
    /\ served < MaxRequests

\* A worker takes request r; `next` is its position after the code that runs
\* before the first statement (get_conn() included when `c` is "open").
Accept(p, r, next, c, locals) ==
    /\ Free(p)
    /\ served' = served + 1
    /\ req' = [req EXCEPT ![p] = r]
    /\ pc' = [pc EXCEPT ![p] = next]
    /\ conn' = [conn EXCEPT ![p] = c]
    /\ loc' = [loc EXCEPT ![p] = locals]
    /\ pre' = [pre EXCEPT ![p] = Appointment]
    /\ stmts' = [stmts EXCEPT ![p] = <<>>]

\* The handler returns (status, message, body); its connection is left `c`.
Return(p, c, status, message, body) ==
    /\ pc' = [pc EXCEPT ![p] = "done"]
    /\ conn' = [conn EXCEPT ![p] = c]
    /\ resp' = [resp EXCEPT ![p] = Response(status, message, body)]

\* The worker sends statements `ss` to the store.
Sent(p, ss) ==
    stmts' = [stmts EXCEPT ![p] = @ \o ss]

\* A request refused before get_conn(): no connection, no statement.
Refuse(p, r, status, message) ==
    /\ Accept(p, r, "done", "none", None)
    /\ resp' = [resp EXCEPT ![p] = Response(status, message, None)]
    /\ UNCHANGED <<workers, tables>>

\* A request that reaches its first statement with an open connection.
Start(p, r, next, locals) ==
    /\ Accept(p, r, next, "open", locals)
    /\ UNCHANGED <<workers, tables, resp>>

\* ---------------------------------------------------------- GET /stats

get_stats(p) ==
    /\ Free(p)
    /\ Start(p, [op |-> "get_stats"], "stats", None)

get_stats_count(p) ==
    /\ pc[p] = "stats"
    /\ Sent(p, <<"count", "count", "count", "count", "count", "count">>)
    /\ Return(p, "closed", 200, "",
              [patients     |-> Cardinality(Patient),
               doctors      |-> Cardinality(Doctor),
               appointments |-> Cardinality(Appointment),
               treatments   |-> Cardinality(Treatment),
               billing      |-> Cardinality(Billing),
               users        |-> Cardinality(AppUser)])
    /\ UNCHANGED <<workers, tables, req, loc, pre, served>>

\* --------------------------------------------------------- POST /login

Usernames == {"alice", "mallory"}

Passwords == {None, <<"secret">>, <<"guess">>}

login(p) ==
    /\ Free(p)
    /\ \E u \in Usernames, w \in Passwords :
           Start(p, [op |-> "login", username |-> u, password |-> w], "login", None)

\* SELECT ... WHERE username = ?, fetchone(), conn.close(), then the checks.
login_check(p) ==
    /\ pc[p] = "login"
    /\ Sent(p, <<"select_user">>)
    /\ LET rows == {u \in AppUser : u.username = req[p].username}
       IN  IF rows = {}
           THEN Return(p, "closed", 401, "User not found", None)
           ELSE LET row == CHOOSE u \in rows : TRUE
                IN  IF IsNone(req[p].password)
                    THEN Return(p, "closed", 500,
                                "Server Error: 'NoneType' object has no attribute 'encode'",
                                None)
                    ELSE IF Checkpw(Utf8(req[p].password[1]), row.password_hash)
                    THEN Return(p, "closed", 200, "Login successful",
                                [username  |-> row.username,
                                 full_name |-> row.full_name,
                                 role      |-> row.role])
                    ELSE Return(p, "closed", 401, "Invalid password", None)
    /\ UNCHANGED <<workers, tables, req, loc, pre, served>>

\* ------------------------------------------- GET /patients, GET /doctors

get_patients(p) ==
    /\ Free(p)
    /\ Start(p, [op |-> "get_patients"], "patients", None)

get_patients_select(p) ==
    /\ pc[p] = "patients"
    /\ Sent(p, <<"select_patients">>)
    /\ Return(p, "closed", 200, "", SelectPatients)
    /\ UNCHANGED <<workers, tables, req, loc, pre, served>>

get_doctors(p) ==
    /\ Free(p)
    /\ Start(p, [op |-> "get_doctors"], "doctors", None)

get_doctors_select(p) ==
    /\ pc[p] = "doctors"
    /\ Sent(p, <<"select_doctors">>)
    /\ Return(p, "closed", 200, "", SelectDoctors)
    /\ UNCHANGED <<workers, tables, req, loc, pre, served>>

\* ------------------------------------------------------ list endpoints

FromArgs == {None, <<"">>, <<"2025-01-02">>}

ToArgs == {None, <<"2025-01-01 12:00:00">>, <<"2025-01-02">>}

StatusArgs == {None, <<"">>} \cup {<<x>> : x \in Statuses}

IntError == "Server Error: invalid literal for int() with base 10"

get_appointments(p) ==
    /\ Free(p)
    /\ \E pid \in ArgIds, did \in DoctorArgs, f \in FromArgs, t \in ToArgs :
           LET args == [patient_id |-> pid, doctor_id |-> did, from |-> f, to |-> t]
               r    == [op |-> "get_appointments", args |-> args]
           IN  IF AppointmentWhereRaises(args)
               THEN Refuse(p, r, 500, IntError)
               ELSE Start(p, r, "appointments", AppointmentWhere(args))

get_appointments_select(p) ==
    /\ pc[p] = "appointments"
    /\ Sent(p, <<"select_appointments">>)
    /\ Return(p, "closed", 200, "", SelectAppointments(loc[p]))
    /\ UNCHANGED <<workers, tables, req, loc, pre, served>>

get_treatments(p) ==
    /\ Free(p)
    /\ \E aid \in ArgIds :
           LET args == [appointment_id |-> aid]
               r    == [op |-> "get_treatments", args |-> args]
           IN  IF TreatmentWhereRaises(args)
               THEN Refuse(p, r, 500, IntError)
               ELSE Start(p, r, "treatments", TreatmentWhere(args))

get_treatments_select(p) ==
    /\ pc[p] = "treatments"
    /\ Sent(p, <<"select_treatments">>)
    /\ Return(p, "closed", 200, "", SelectTreatments(loc[p]))
    /\ UNCHANGED <<workers, tables, req, loc, pre, served>>

get_billing(p) ==
    /\ Free(p)
    /\ \E pid \in ArgIds, st \in StatusArgs :
           LET args == [patient_id |-> pid, status |-> st]
               r    == [op |-> "get_billing", args |-> args]
           IN  IF BillingWhereRaises(args)
               THEN Refuse(p, r, 500, IntError)
               ELSE Start(p, r, "billing", BillingWhere(args))

get_billing_select(p) ==
    /\ pc[p] = "billing"
    /\ Sent(p, <<"select_billing">>)
    /\ Return(p, "closed", 200, "", SelectBilling(loc[p]))
    /\ UNCHANGED <<workers, tables, req, loc, pre, served>>

\* --------------------------------------------------- POST /appointments

create_appointment(p) ==
    /\ Free(p)
    /\ \E pid \in PatientJson, did \in DoctorJson, d \in DateStrings, rs \in Reasons :
           LET data == [patient_id |-> pid, doctor_id |-> did,
                        appointment_date |-> <<d>>, reason |-> <<rs>>]
               r    == [op |-> "create_appointment", data |-> data]
           IN  IF IntRaises(pid) \/ IntRaises(did)
               THEN Refuse(p, r, 500, IntError)
               ELSE Start(p, r, "c_patient",
                          [patient_id |-> <<"int", PyInt(pid)>>,
                           doctor_id  |-> <<"int", PyInt(did)>>])

create_check_patient(p) ==
    /\ pc[p] = "c_patient"
    /\ Sent(p, <<"count_patient">>)
    /\ IF CountPatient(loc[p].patient_id) = 0
       THEN Return(p, "closed", 400, "Invalid patient_id", None)
       ELSE /\ pc' = [pc EXCEPT ![p] = "c_doctor"]
            /\ UNCHANGED <<conn, resp>>
    /\ UNCHANGED <<workers, tables, req, loc, pre, served>>

create_check_doctor(p) ==
    /\ pc[p] = "c_doctor"
    /\ Sent(p, <<"count_doctor">>)
    /\ IF CountDoctor(loc[p].doctor_id) = 0
       THEN Return(p, "closed", 400, "Invalid doctor_id", None)
       ELSE /\ pc' = [pc EXCEPT ![p] = "c_insert"]
            /\ UNCHANGED <<conn, resp>>
    /\ UNCHANGED <<workers, tables, req, loc, pre, served>>

\* INSERT, SELECT SCOPE_IDENTITY(), commit.
create_insert(p) ==
    /\ pc[p] = "c_insert"
    /\ Sent(p, <<"insert", "scope_identity", "commit">>)
    /\ Appointment' = Appointment \cup
          { [appointment_id   |-> identity,
             patient_id       |-> loc[p].patient_id[2],
             doctor_id        |-> loc[p].doctor_id[2],
             appointment_date |-> ParseDate(req[p].data.appointment_date[1]),
             reason           |-> req[p].data.reason[1]] }
    /\ identity' = identity + 1
    /\ loc' = [loc EXCEPT ![p] = [new_id |-> identity]]
    /\ pc' = [pc EXCEPT ![p] = "c_read"]
    /\ UNCHANGED <<workers, Patient, Doctor, Treatment, Billing, AppUser,
                   req, conn, pre, resp, served>>

NoneError == "Server Error: 'NoneType' object is not subscriptable"

\* The joined SELECT by id, fetchone(), conn.close(), then the row mapper.
ReadBack(p, id, status) ==
    /\ Sent(p, <<"select_joined">>)
    /\ LET rows == UNION {Joined(a) : a \in {x \in Appointment : x.appointment_id = id}}
       IN  IF rows = {}
           THEN Return(p, "closed", 500, NoneError, None)
           ELSE Return(p, "closed", status, "",
                       _appointment_row_to_json(CHOOSE r \in rows : TRUE))
    /\ UNCHANGED <<workers, tables, req, loc, pre, served>>

create_read(p) ==
    /\ pc[p] = "c_read"
    /\ ReadBack(p, loc[p].new_id, 201)

\* ----------------------------------------------- PUT /appointments/{id}

UpdateDates == {None, <<"2025-01-02">>}

UpdateReasons == {None, <<"">>, <<"Follow-up">>}

\* Faulty variant: the fields are tested for truth (`if reason:`), not for None.
UpdateSets_Truthy(data) ==
    LET s1 == IF ~IsNone(data.patient_id)
              THEN <<[col |-> "patient_id", param |-> PyInt(data.patient_id)]>>
              ELSE <<>>
        s2 == IF ~IsNone(data.doctor_id)
              THEN <<[col |-> "doctor_id", param |-> PyInt(data.doctor_id)]>>
              ELSE <<>>
        s3 == IF Truthy(data.appointment_date)
              THEN <<[col |-> "appointment_date", param |-> data.appointment_date[1]]>>
              ELSE <<>>
        s4 == IF Truthy(data.reason)
              THEN <<[col |-> "reason", param |-> data.reason[1]]>>
              ELSE <<>>
        s  == s1 \o s2 \o s3 \o s4
    IN  [sets   |-> [i \in 1..Len(s) |-> s[i].col],
         params |-> [i \in 1..Len(s) |-> s[i].param]]

\* The SET list and its parameters, in the order the fields are tested.
UpdateSets(data) ==
    LET s1 == IF ~IsNone(data.patient_id)
              THEN <<[col |-> "patient_id", param |-> PyInt(data.patient_id)]>>
              ELSE <<>>
        s2 == IF ~IsNone(data.doctor_id)
              THEN <<[col |-> "doctor_id", param |-> PyInt(data.doctor_id)]>>
              ELSE <<>>
        s3 == IF ~IsNone(data.appointment_date)
              THEN <<[col |-> "appointment_date", param |-> data.appointment_date[1]]>>
              ELSE <<>>
        s4 == IF ~IsNone(data.reason)
              THEN <<[col |-> "reason", param |-> data.reason[1]]>>
              ELSE <<>>
        s  == s1 \o s2 \o s3 \o s4
    IN  [sets   |-> [i \in 1..Len(s) |-> s[i].col],
         params |-> [i \in 1..Len(s) |-> s[i].param]]

UpdateRaises(data) ==
    \/ ~IsNone(data.patient_id) /\ IntRaises(data.patient_id)
    \/ ~IsNone(data.doctor_id) /\ IntRaises(data.doctor_id)

\* The store's assignment of the i-th parameter to the i-th SET column.
RECURSIVE Assign(_, _, _)
Assign(row, sets, params) ==
    IF sets = <<>> THEN row
    ELSE LET v == IF Head(sets) = "appointment_date"
                  THEN ParseDate(Head(params))
                  ELSE Head(params)
         IN  Assign([row EXCEPT ![Head(sets)] = v], Tail(sets), Tail(params))

\* UPDATE dbo.Appointment SET ... WHERE appointment_id = ? (the last parameter).
UpdateRows(rows, sets, params) ==
    LET id == params[Len(params)]
    IN  { IF a.appointment_id = id THEN Assign(a, sets, params) ELSE a : a \in rows }

update_appointment(p) ==
    /\ Free(p)
    /\ \E id \in ClientIds, pid \in PatientJson, did \in DoctorJson,
          d \in UpdateDates, rs \in UpdateReasons :
           LET data == [patient_id |-> pid, doctor_id |-> did,
                        appointment_date |-> d, reason |-> rs]
               r    == [op |-> "update_appointment", id |-> id, data |-> data]
           IN  IF UpdateRaises(data)
               THEN Refuse(p, r, 500, IntError)
               ELSE IF UpdateSets(data).sets = <<>>
               THEN Refuse(p, r, 400, "Nothing to update")
               ELSE Start(p, r, "u_exists", UpdateSets(data))

update_check_exists(p) ==
    /\ pc[p] = "u_exists"
    /\ Sent(p, <<"count_appointment">>)
    /\ IF CountAppointment(req[p].id) = 0
       THEN Return(p, "closed", 404, "Appointment not found", None)
       ELSE /\ pc' = [pc EXCEPT ![p] = "u_patient"]
            /\ UNCHANGED <<conn, resp>>
    /\ UNCHANGED <<workers, tables, req, loc, pre, served>>

\* Validate FK references (if changed): the raw JSON value is the parameter.
update_check_patient(p) ==
    /\ pc[p] = "u_patient"
    /\ IF IsNone(req[p].data.patient_id)
       THEN /\ pc' = [pc EXCEPT ![p] = "u_doctor"]
            /\ UNCHANGED <<conn, resp, stmts>>
       ELSE /\ Sent(p, <<"count_patient">>)
            /\ IF CountPatient(req[p].data.patient_id) = 0
               THEN Return(p, "closed", 400, "Invalid patient_id", None)
               ELSE /\ pc' = [pc EXCEPT ![p] = "u_doctor"]
                    /\ UNCHANGED <<conn, resp>>
    /\ UNCHANGED <<workers, tables, req, loc, pre, served>>

update_check_doctor(p) ==
    /\ pc[p] = "u_doctor"
    /\ IF IsNone(req[p].data.doctor_id)
       THEN /\ pc' = [pc EXCEPT ![p] = "u_write"]
            /\ UNCHANGED <<conn, resp, stmts>>
       ELSE /\ Sent(p, <<"count_doctor">>)
            /\ IF CountDoctor(req[p].data.doctor_id) = 0
               THEN Return(p, "closed", 400, "Invalid doctor_id", None)
               ELSE /\ pc' = [pc EXCEPT ![p] = "u_write"]
                    /\ UNCHANGED <<conn, resp>>
    /\ UNCHANGED <<workers, tables, req, loc, pre, served>>

\* params.append(appointment_id), UPDATE, commit.
update_write(p) ==
    /\ pc[p] = "u_write"
    /\ Sent(p, <<"update", "commit">>)
    /\ Appointment' = UpdateRows(Appointment, loc[p].sets,
                                 Append(loc[p].params, req[p].id))
    /\ pc' = [pc EXCEPT ![p] = "u_read"]
    /\ UNCHANGED <<workers, Patient, Doctor, Treatment, Billing, AppUser,
                   identity, req, conn, loc, pre, resp, served>>

update_read(p) ==
    /\ pc[p] = "u_read"
    /\ ReadBack(p, req[p].id, 200)

\* -------------------------------------------- DELETE /appointments/{id}

delete_appointment(p) ==
    /\ Free(p)
    /\ \E id \in ClientIds :
           Start(p, [op |-> "delete_appointment", id |-> id], "d_exists", None)

delete_check_exists(p) ==
    /\ pc[p] = "d_exists"
    /\ Sent(p, <<"count_appointment">>)
    /\ IF CountAppointment(req[p].id) = 0
       THEN Return(p, "closed", 404, "Appointment not found", None)
       ELSE /\ pc' = [pc EXCEPT ![p] = "d_delete"]
            /\ UNCHANGED <<conn, resp>>
    /\ UNCHANGED <<workers, tables, req, loc, pre, served>>

\* Faulty variant: the DELETE with <= for =.
DeleteRows_UpTo(rows, id) ==
    {a \in rows : a.appointment_id > id}

\* DELETE FROM dbo.Appointment WHERE appointment_id = ?
DeleteRows(rows, id) ==
    {a \in rows : a.appointment_id # id}

\* DELETE (the cursor keeps its rowcount), commit, conn.close().
delete_delete(p) ==
    /\ pc[p] = "d_delete"
    /\ Sent(p, <<"delete", "commit">>)
    /\ Appointment' = DeleteRows(Appointment, req[p].id)
    /\ loc' = [loc EXCEPT ![p] =
                 [rowcount |-> Cardinality(Appointment) - Cardinality(Appointment')]]
    /\ Return(p, "closed", 200, "Appointment deleted", None)
    /\ UNCHANGED <<workers, Patient, Doctor, Treatment, Billing, AppUser,
                   identity, req, pre, served>>

\* ------------------------------------------------- the except handlers

\* The positions whose next step is a statement on the open connection.
AtStatement(p) ==
    /\ pc[p] \in {"stats", "login", "patients", "doctors", "appointments",
                  "treatments", "billing", "c_patient", "c_doctor", "c_insert",
                  "c_read", "u_exists", "u_patient", "u_doctor", "u_write",
                  "u_read", "d_exists", "d_delete"}
    /\ pc[p] = "u_patient" => ~IsNone(req[p].data.patient_id)
    /\ pc[p] = "u_doctor" => ~IsNone(req[p].data.doctor_id)

StoreErrorText == "Server Error: store"

\* The statement raises: `except Exception as e` returns 500.  Nothing of the
\* open transaction is committed, and conn.close() is not reached.
store_error(p) ==
    /\ AtStatement(p)
    /\ Sent(p, <<"raised">>)
    /\ Return(p, conn[p], 500, StoreErrorText, None)
    /\ UNCHANGED <<workers, tables, req, loc, pre, served>>

\* The response is delivered and the worker is free for the next request.
Deliver(p) ==
    /\ pc[p] = "done"
    /\ pc' = [pc EXCEPT ![p] = "idle"]
    /\ req' = [req EXCEPT ![p] = NoRequest]
    /\ conn' = [conn EXCEPT ![p] = "none"]
    /\ loc' = [loc EXCEPT ![p] = None]
    /\ stmts' = [stmts EXCEPT ![p] = <<>>]
    /\ pre' = [pre EXCEPT ![p] = {}]
    /\ resp' = [resp EXCEPT ![p] = None]
    /\ UNCHANGED <<workers, tables, served>>

\* ------------------------------------------------------ specifications

Reads(p) ==
    \/ get_stats(p) \/ get_stats_count(p)
    \/ login(p) \/ login_check(p)
    \/ get_patients(p) \/ get_patients_select(p)
    \/ get_doctors(p) \/ get_doctors_select(p)
    \/ get_appointments(p) \/ get_appointments_select(p)
    \/ get_treatments(p) \/ get_treatments_select(p)
    \/ get_billing(p) \/ get_billing_select(p)

Creates(p) ==
    \/ create_appointment(p) \/ create_check_patient(p)
    \/ create_check_doctor(p) \/ create_insert(p) \/ create_read(p)

Updates(p) ==
    \/ update_appointment(p) \/ update_check_exists(p)
    \/ update_check_patient(p) \/ update_check_doctor(p)
    \/ update_write(p) \/ update_read(p)

Deletes(p) ==
    \/ delete_appointment(p) \/ delete_check_exists(p) \/ delete_delete(p)

Next ==
    \E p \in Threads :
        Reads(p) \/ Creates(p) \/ Updates(p) \/ Deletes(p)
          \/ store_error(p) \/ Deliver(p)

Spec == Init /\ [][Next]_vars

\* Two workers (a threaded server) and a store that never fails: PUT and
\* DELETE requests interleave statement by statement.
InitConc == InitWith(Threads)

NextConc ==
    \E p \in Threads : Updates(p) \/ Deletes(p) \/ Deliver(p)

SpecConc == InitConc /\ [][NextConc]_vars

\* ============================================================== claims

Done(p, op) ==
    pc[p] = "done" /\ req[p].op = op

StoreFailed(p) ==
    resp[p].message = StoreErrorText

RangeOf(s) ==
    {s[i] : i \in 1..Len(s)}

OtherTablesUnchanged ==
    /\ Patient = InitPatient
    /\ Doctor = InitDoctor
    /\ Treatment = InitTreatment
    /\ Billing = InitBilling
    /\ AppUser = InitAppUser

\* C1: every handler that acquired a connection has closed it by the time it
\* returns its response, on every exit path (success, refusal, exception).
C1_ConnectionReleased ==
    \A p \in Threads : pc[p] = "done" => conn[p] # "open"

\* C2: POST /appointments naming an integer patient_id (resp. doctor_id) that
\* matches no Patient (resp. Doctor) row responds 400 'Invalid patient_id'
\* (resp. 'Invalid doctor_id'), sends no INSERT and leaves dbo.Appointment as
\* it was.  (When both are missing the patient check, which runs first,
\* names the response.)
C2_PatientMissing(p) ==
    /\ req[p].data.patient_id[1] = "int"
    /\ \A q \in Patient : q.patient_id # req[p].data.patient_id[2]

C2_DoctorMissing(p) ==
    /\ req[p].data.doctor_id[1] = "int"
    /\ \A d \in Doctor : d.doctor_id # req[p].data.doctor_id[2]

C3_DeleteOutcome ==
    \A p \in Threads :
        (Done(p, "delete_appointment") /\ ~StoreFailed(p)) =>
            /\ OtherTablesUnchanged
            /\ IF \E a \in pre[p] : a.appointment_id = req[p].id
               THEN /\ resp[p].status = 200
                    /\ Appointment = {a \in pre[p] : a.appointment_id # req[p].id}
                    /\ Cardinality(Appointment) = Cardinality(pre[p]) - 1
               ELSE /\ resp[p].status = 404
                    /\ resp[p].message = "Appointment not found"
                    /\ Appointment = pre[p]
                    /\ "delete" \notin RangeOf(stmts[p])

C3_Witness ==
    \E p \in Threads :
        /\ Done(p, "delete_appointment")
        /\ resp[p].status = 200
        /\ req[p].id = 1
        /\ Cardinality(Appointment) >= 2

\* C4: every appointment row references an existing patient row and an
\* existing doctor row, after any sequence of requests.
C4_ReferencesExist ==
    \A a \in Appointment :
        /\ \E q \in Patient : q.patient_id = a.patient_id
        /\ \E d \in Doctor : d.doctor_id = a.doctor_id

C4_Witness ==
    \E p \in Threads :
        /\ Done(p, "update_appointment")
        /\ resp[p].status = 200
        /\ ~IsNone(req[p].data.patient_id)
        /\ ~IsNone(req[p].data.doctor_id)
        /\ Appointment # pre[p]

\* C5: with valid filters, GET /appointments, GET /treatments and
\* GET /billing return exactly the stored rows that satisfy the conjunction
\* of the supplied predicates (an absent or empty filter contributes none),
\* in the fixed order of the resource.
C5_Supplied(x) ==
    x # None /\ x[1] # ""

C5_ValidInt(x) ==
    C5_Supplied(x) => x[1] \in {"1", "2", "3"}

C5_IntOf(x) ==
    CHOOSE n \in 1..3 : x[1] = <<"1", "2", "3">>[n]

C5_Sorted(body, dateOf, idOf) ==
    \A i \in 1..Len(body) : \A j \in 1..Len(body) :
        i < j => \/ dateOf[i] > dateOf[j]
                 \/ dateOf[i] = dateOf[j] /\ idOf[i] > idOf[j]

C5_Appointments(p) ==
    LET args == req[p].args
        want == {a \in Appointment :
                   /\ C5_Supplied(args.patient_id) => a.patient_id = C5_IntOf(args.patient_id)
                   /\ C5_Supplied(args.doctor_id) => a.doctor_id = C5_IntOf(args.doctor_id)
                   /\ C5_Supplied(args.from) => a.appointment_date >= ParseDate(args.from[1])
                   /\ C5_Supplied(args.to) => a.appointment_date <= ParseDate(args.to[1])}
        body == resp[p].body
        row  == [i \in 1..Len(body) |->
                    CHOOSE a \in Appointment : a.appointment_id = body[i].appointment_id]
    IN  (C5_ValidInt(args.patient_id) /\ C5_ValidInt(args.doctor_id)) =>
            /\ resp[p].status = 200
            /\ Len(body) = Cardinality(want)
            /\ {body[i].appointment_id : i \in 1..Len(body)} =
                  {a.appointment_id : a \in want}
            /\ \A i \in 1..Len(body) :
                  /\ body[i].patient_id = row[i].patient_id
                  /\ body[i].doctor_id = row[i].doctor_id
                  /\ body[i].reason = row[i].reason
                  /\ ParseDate(body[i].appointment_date) = row[i].appointment_date
            /\ C5_Sorted(body, [i \in 1..Len(body) |-> row[i].appointment_date],
                               [i \in 1..Len(body) |-> row[i].appointment_id])

C5_Treatments(p) ==
    LET args == req[p].args
        want == {t \in Treatment :
                   C5_Supplied(args.appointment_id) =>
                       t.appointment_id = C5_IntOf(args.appointment_id)}
        body == resp[p].body
    IN  C5_ValidInt(args.appointment_id) =>
            /\ resp[p].status = 200
            /\ Len(body) = Cardinality(want)
            /\ RangeOf(body) = want
            /\ \A i \in 1..Len(body) : \A j \in 1..Len(body) :
                  i < j => body[i].treatment_id > body[j].treatment_id

C5_Billing(p) ==
    LET args == req[p].args
        want == {b \in Billing :
                   /\ C5_Supplied(args.patient_id) => b.patient_id = C5_IntOf(args.patient_id)
                   /\ C5_Supplied(args.status) => b.payment_status = args.status[1]}
        body == resp[p].body
        row  == [i \in 1..Len(body) |->
                    CHOOSE b \in Billing : b.bill_id = body[i].bill_id]
    IN  C5_ValidInt(args.patient_id) =>
            /\ resp[p].status = 200
            /\ Len(body) = Cardinality(want)
            /\ {body[i].bill_id : i \in 1..Len(body)} = {b.bill_id : b \in want}
            /\ \A i \in 1..Len(body) :
                  /\ body[i].patient_id = row[i].patient_id
                  /\ body[i].payment_status = row[i].payment_status
            /\ C5_Sorted(body, [i \in 1..Len(body) |-> row[i].billing_date],
                               [i \in 1..Len(body) |-> row[i].bill_id])

C5_FilteredLists ==
    \A p \in Threads :
        /\ (Done(p, "get_appointments") /\ ~StoreFailed(p)) => C5_Appointments(p)
        /\ (Done(p, "get_treatments") /\ ~StoreFailed(p)) => C5_Treatments(p)
        /\ (Done(p, "get_billing") /\ ~StoreFailed(p)) => C5_Billing(p)

C5_Witness ==
    \E p \in Threads :
        /\ Done(p, "get_appointments")
        /\ resp[p].status = 200
        /\ req[p].args.doctor_id = <<"2">>
        /\ C5_Supplied(req[p].args.to)
        /\ Len(resp[p].body) >= 1
        /\ Len(resp[p].body) < Cardinality(Appointment)

\* C6: a list request whose integer filter is present, non-empty and not
\* numeric fails with status 400, and no query is sent to the store.
C6_BadInt(x) ==
    x # None /\ x[1] # "" /\ x[1] \notin {"0", "1", "2", "3", "4"}

C6_NonNumericFilter400 ==
    \A p \in Threads :
        /\ Done(p, "get_appointments")
             /\ (C6_BadInt(req[p].args.patient_id) \/ C6_BadInt(req[p].args.doctor_id))
           => resp[p].status = 400 /\ stmts[p] = <<>>
        /\ Done(p, "get_treatments") /\ C6_BadInt(req[p].args.appointment_id)
           => resp[p].status = 400 /\ stmts[p] = <<>>
        /\ Done(p, "get_billing") /\ C6_BadInt(req[p].args.patient_id)
           => resp[p].status = 400 /\ stmts[p] = <<>>

\* C7: POST /login has exactly three outcomes: unknown username, 401 'User
\* not found'; known username whose password does not verify (a missing
\* password included), 401 'Invalid password'; known username and matching
\* password, 200 with the stored username, full_name and role.  No response
\* carries the password hash and the store is not modified.
C7_LoginOutcomes ==
    \A p \in Threads :
        (Done(p, "login") /\ ~StoreFailed(p)) =>
            LET known == {u \in AppUser : u.username = req[p].username}
            IN  /\ OtherTablesUnchanged /\ Appointment = pre[p]
                /\ known = {} =>
                      /\ resp[p].status = 401
                      /\ resp[p].message = "User not found"
                /\ (known # {} /\ req[p].password # <<"secret">>) =>
                      /\ resp[p].status = 401
                      /\ resp[p].message = "Invalid password"
                /\ (known # {} /\ req[p].password = <<"secret">>) =>
                      /\ resp[p].status = 200
                      /\ \E u \in known :
                            resp[p].body = [username  |-> u.username,
                                            full_name |-> u.full_name,
                                            role      |-> u.role]

\* C8: PUT /appointments/{id} changes, in the target row, exactly the fields
\* the body supplies with a non-null value, each to the supplied value; the
\* other fields and the other rows keep their values.  With no field
\* supplied it responds 400 'Nothing to update' and changes nothing.
C8_Expected(a, data) ==
    [appointment_id   |-> a.appointment_id,
     patient_id       |-> IF data.patient_id = None THEN a.patient_id
                          ELSE data.patient_id[2],
     doctor_id        |-> IF data.doctor_id = None THEN a.doctor_id
                          ELSE data.doctor_id[2],
     appointment_date |-> IF data.appointment_date = None THEN a.appointment_date
                          ELSE ParseDate(data.appointment_date[1]),
     reason           |-> IF data.reason = None THEN a.reason
                          ELSE data.reason[1]]

C8_NoField(data) ==
    /\ data.patient_id = None
    /\ data.doctor_id = None
    /\ data.appointment_date = None
    /\ data.reason = None

C8_Valid(p) ==
    LET data == req[p].data
    IN  /\ ~C8_NoField(data)
        /\ \E a \in pre[p] : a.appointment_id = req[p].id
        /\ data.patient_id # None =>
              /\ data.patient_id[1] = "int"
              /\ \E q \in Patient : q.patient_id = data.patient_id[2]
        /\ data.doctor_id # None =>
              /\ data.doctor_id[1] = "int"
              /\ \E d \in Doctor : d.doctor_id = data.doctor_id[2]

C8_UpdateFrame ==
    \A p \in Threads :
        Done(p, "update_appointment") =>
            LET data    == req[p].data
                written == {IF a.appointment_id = req[p].id
                            THEN C8_Expected(a, data) ELSE a : a \in pre[p]}
            IN  /\ OtherTablesUnchanged
                /\ C8_NoField(data) =>
                      /\ resp[p].status = 400
                      /\ resp[p].message = "Nothing to update"
                      /\ Appointment = pre[p]
                /\ ~StoreFailed(p) =>
                      /\ resp[p].status = 200 <=> C8_Valid(p)
                      /\ resp[p].status = 200 => Appointment = written
                      /\ resp[p].status # 200 => Appointment = pre[p]
                /\ StoreFailed(p) =>
                      \/ Appointment = pre[p]
                      \/ C8_Valid(p) /\ Appointment = written

C8_Witness ==
    \E p \in Threads :
        /\ Done(p, "update_appointment")
        /\ resp[p].status = 200
        /\ req[p].data.patient_id = <<"int", 2>>
        /\ req[p].data.doctor_id = None
        /\ req[p].data.reason = <<"">>
        /\ Appointment # pre[p]
        /\ Cardinality(Appointment) >= 2

\* C9 as the specification lists the update flow: (1) shape of the supplied
\* fields, (2) supplied patient_id exists else 400, (3) supplied doctor_id
\* exists else 400, (4) the appointment exists else 404, (5) write; the
\* first failing check names the response and no failing case sends UPDATE.
C9_WellFormed(data) ==
    /\ data.patient_id # None => data.patient_id[1] # "str"
    /\ data.doctor_id # None => data.doctor_id[1] # "str"

C9_PatientMissing(data) ==
    /\ data.patient_id # None
    /\ ~( /\ data.patient_id[1] = "int"
          /\ \E q \in Patient : q.patient_id = data.patient_id[2] )

C9_DoctorMissing(data) ==
    /\ data.doctor_id # None
    /\ ~( /\ data.doctor_id[1] = "int"
          /\ \E d \in Doctor : d.doctor_id = data.doctor_id[2] )

C9_AppointmentMissing(p) ==
    \A a \in pre[p] : a.appointment_id # req[p].id

C9_Answer(p, status, message) ==
    /\ resp[p].status = status
    /\ resp[p].message = message
    /\ status # 200 => "update" \notin RangeOf(stmts[p]) /\ Appointment = pre[p]

C9_ChecksInSpecOrder ==
    \A p \in Threads :
        (Done(p, "update_appointment") /\ ~StoreFailed(p) /\ C9_WellFormed(req[p].data)) =>
            LET data == req[p].data
            IN  CASE C8_NoField(data)         -> C9_Answer(p, 400, "Nothing to update")
                  [] C9_PatientMissing(data)  -> C9_Answer(p, 400, "Invalid patient_id")
                  [] C9_DoctorMissing(data)   -> C9_Answer(p, 400, "Invalid doctor_id")
                  [] C9_AppointmentMissing(p) -> C9_Answer(p, 404, "Appointment not found")
                  [] OTHER                    -> C9_Answer(p, 200, "")

\* C9 as the code runs it: (1) at least one field supplied else 400 'Nothing
\* to update', (2) the appointment exists else 404, (3) supplied patient_id
\* exists else 400, (4) supplied doctor_id exists else 400, (5) write.  The
\* first failing check names the response, the statements are sent in that
\* order and stop at the failing check, and no failing case sends UPDATE.
C9_Checks(data, upto) ==
    LET c1 == <<"count_appointment">>
        c2 == IF data.patient_id # None THEN <<"count_patient">> ELSE <<>>
        c3 == IF data.doctor_id # None THEN <<"count_doctor">> ELSE <<>>
    IN  CASE upto = 1 -> c1
          [] upto = 2 -> c1 \o c2
          [] upto = 3 -> c1 \o c2 \o c3

C9_ChecksInCodeOrder ==
    \A p \in Threads :
        (Done(p, "update_appointment") /\ ~StoreFailed(p) /\ C9_WellFormed(req[p].data)) =>
            LET data == req[p].data
            IN  IF C8_NoField(data)
                THEN C9_Answer(p, 400, "Nothing to update") /\ stmts[p] = <<>>
                ELSE IF C9_AppointmentMissing(p)
                THEN /\ C9_Answer(p, 404, "Appointment not found")
                     /\ stmts[p] = C9_Checks(data, 1)
                ELSE IF C9_PatientMissing(data)
                THEN /\ C9_Answer(p, 400, "Invalid patient_id")
                     /\ stmts[p] = C9_Checks(data, 2)
                ELSE IF C9_DoctorMissing(data)
                THEN /\ C9_Answer(p, 400, "Invalid doctor_id")
                     /\ stmts[p] = C9_Checks(data, 3)
                ELSE /\ C9_Answer(p, 200, "")
                     /\ stmts[p] = C9_Checks(data, 3)
                                     \o <<"update", "commit", "select_joined">>

C9_Witness ==
    \E p \in Threads :
        /\ Done(p, "update_appointment")
        /\ C9_AppointmentMissing(p)
        /\ req[p].data.patient_id = <<"int", 3>>
        /\ resp[p].status = 404
        /\ stmts[p] = <<"count_appointment">>

\* C10: with a store that never fails and well-formed integer ids, PUT and
\* DELETE requests interleaving statement by statement each end in an
\* enumerated outcome: PUT in 200 with the re-fetched record, 400 or 404,
\* DELETE in 200 or 404, never 500; and a DELETE answers 200 only if its own
\* DELETE statement removed the row.
C10_IntOrNone(j) ==
    j = None \/ j[1] = "int"

C10_ConcurrentOutcomes ==
    \A p \in Threads :
        /\ ( /\ Done(p, "update_appointment")
             /\ C10_IntOrNone(req[p].data.patient_id)
             /\ C10_IntOrNone(req[p].data.doctor_id) )
           => /\ resp[p].status \in {200, 400, 404}
              /\ resp[p].status = 200 => resp[p].body # None
        /\ Done(p, "delete_appointment")
           => /\ resp[p].status \in {200, 404}
              /\ resp[p].status = 200 => loc[p].rowcount = 1

====
